---- MODULE Spec2Model ----
(***************************************************************************)
(* Query-focused summarization: the command line entry and the refinement  *)
(* controller run_summarization_workflow (src/src/main.py), the reply      *)
(* parsers of the agents it drives (src/Agents.py), and the structured     *)
(* agents of src/src/Agents.py.                                            *)
(*                                                                         *)
(* A text is a sequence of one-character strings, so that split, strip and *)
(* upper are computed as Python computes them.  A summary is an opaque     *)
(* string: the controller only stores and forwards it.                     *)
(***************************************************************************)
EXTENDS Integers, Sequences, FiniteSets, TLC

(***************************************************************************)
(* Bounds of the model.                                                    *)
(***************************************************************************)
\* largest iteration budget (--max_iterations) a run is started with
MaxIterations == 3

\* most lines of a free-form Answer Extractor reply
MaxReplyLines == 3

\* most per-pair verdicts of a structured Judge reply
MaxEvaluations == 2

\* most characters of a reply text handed to a parser on its own
MaxTextLen == 4

(***************************************************************************)
(* Program constants.                                                      *)
(***************************************************************************)
\* "Exactly 5 diagnostic questions" (QuestionsOutputType.questions)
ProbeCount == 5

(***************************************************************************)
(* Python str operations on texts.                                         *)
(***************************************************************************)
\* the characters str.strip() removes that occur in the modelled replies
Whitespace == {" ", "\n"}

\* F(v) with v evaluated once, however often F reads it
Bind(v, F(_)) == CHOOSE r \in {F(x) : x \in {v}} : TRUE

Least(S) == CHOOSE i \in S : \A j \in S : i <= j

Greatest(S) == CHOOSE i \in S : \A j \in S : j <= i

\* the positions of s that hold none of chars
Kept(s, chars) == {i \in 1..Len(s) : s[i] \notin chars}

\* s.strip(chars)
StripChars(s, chars) ==
    Bind(s, LAMBDA v :
        Bind(Kept(v, chars), LAMBDA kept :
            IF kept = {} THEN <<>>
            ELSE SubSeq(v, Least(kept), Greatest(kept))))

\* s.strip()
Strip(s) == StripChars(s, Whitespace)

\* the positions of sep in s
Positions(s, sep) == {i \in 1..Len(s) : s[i] = sep}

\* sep in s
Contains(s, sep) == Bind(s, LAMBDA v : Positions(v, sep) # {})

\* of the positions ps of a separator in a text of length n, the k-th;
\* 0 for k = 0, n + 1 past the last
Cut(ps, n, k) ==
    IF k = 0 THEN 0
    ELSE IF k > Cardinality(ps) THEN n + 1
    ELSE CHOOSE i \in ps : Cardinality({j \in ps : j < i}) = k - 1

\* s.split(sep): one piece more than s holds separators
Split(s, sep) ==
    Bind(s, LAMBDA v :
        Bind(Positions(v, sep), LAMBDA ps :
            [k \in 1..(Cardinality(ps) + 1) |->
                SubSeq(v, Cut(ps, Len(v), k - 1) + 1,
                          Cut(ps, Len(v), k) - 1)]))

\* s.split(sep, 1) of a text that holds sep
SplitOnce(s, sep) ==
    Bind(s, LAMBDA v :
        Bind(Least(Positions(v, sep)), LAMBDA i :
            <<SubSeq(v, 1, i - 1), SubSeq(v, i + 1, Len(v))>>))

\* sep.join(pieces)
RECURSIVE Join(_, _)
Join(pieces, sep) ==
    Bind(pieces, LAMBDA v :
        IF Len(v) = 0 THEN <<>>
        ELSE IF Len(v) = 1 THEN v[1]
        ELSE v[1] \o <<sep>> \o Join(Tail(v), sep))

UpperChar(c) ==
    CASE c = "o" -> "O"
      [] c = "k" -> "K"
      [] c = "a" -> "A"
      [] c = "b" -> "B"
      [] c = "q" -> "Q"
      [] c = "y" -> "Y"
      [] c = "n" -> "N"
      [] OTHER -> c

\* s.upper()
Upper(s) == Bind(s, LAMBDA v : [i \in 1..Len(v) |-> UpperChar(v[i])])

\* [f(x) for x in xs]
MapSeq(xs, f(_)) == Bind(xs, LAMBDA v : [i \in 1..Len(v) |-> f(v[i])])

\* [x for x in xs if test(x)]
FilterSeq(xs, test(_)) == Bind(xs, LAMBDA v : SelectSeq(v, test))

(***************************************************************************)
(* The reply parsers (src/Agents.py).                                      *)
(***************************************************************************)
\* the blank lines kept: [q.strip() for q in text.split("\n")]
QuestionListParserKeepsBlank(text) == MapSeq(Split(text, "\n"), Strip)

\* [q.strip() for q in text.split("\n") if q.strip()]
QuestionListParser_parse(text) ==
    MapSeq(FilterSeq(Split(text, "\n"), LAMBDA q : Strip(q) # <<>>), Strip)

\* q, a = line.split(":", 1); (q.strip("- ").strip(), a.strip())
QAPairOf(line) ==
    Bind(SplitOnce(line, ":"), LAMBDA qa :
        <<Strip(StripChars(qa[1], {"-", " "})), Strip(qa[2])>>)

\* one (question, answer) pair per line that holds a colon
QAPairsParser_parse(text) ==
    MapSeq(FilterSeq(Split(text, "\n"), LAMBDA line : Contains(line, ":")),
           QAPairOf)

\* only the spaces removed: t.strip(" ")
JudgeTopicKeepsHyphens(t) == StripChars(t, {" "})

\* t.strip("- ")
JudgeTopicOf(t) == StripChars(t, {"-", " "})

\* (needs_iteration, missing_topics)
JudgeOutputParser_parse(text) ==
    IF Upper(Strip(text)) = <<"O", "K">>
    THEN [needs_iteration |-> FALSE, missing_topics |-> <<>>]
    ELSE [needs_iteration |-> TRUE,
          missing_topics |->
              MapSeq(FilterSeq(Split(text, "\n"), LAMBDA t : Strip(t) # <<>>),
                     JudgeTopicOf)]

(***************************************************************************)
(* Replies of the generation backend.  The controller never sees a reply,  *)
(* only what the agent's run() returns: the parsed reply.                  *)
(***************************************************************************)
Digits == <<"1", "2", "3", "4", "5", "6", "7", "8", "9">>

\* the text of the i-th proposed question
QuestionText(i) == <<"q", Digits[i]>>

\* a reply of n question lines, each indented, followed by a blank line
QuestionReply(n) ==
    Join([i \in 1..n |-> <<" ">> \o QuestionText(i)] \o << <<" ">> >>, "\n")

\* no question, one, the documented number
QuestionCounts == {0, 1, ProbeCount}

QuestionReplies == {QuestionReply(n) : n \in QuestionCounts}

\* the summaries the Summarizer may return
Summaries == {"s1", "s2"}

Answers == {<<"y">>, <<"n">>}

\* a reply in the prompt's format, "- question: answer" on one line each
QAReply(qs, a) ==
    Join([i \in 1..Len(qs) |-> <<"-", " ">> \o qs[i] \o <<":", " ">> \o a],
         "\n")

QAReplies(qs) == {QAReply(qs, a) : a \in Answers}

\* OK (in two spellings), two topics, one topic twice, nothing
JudgeReplies ==
    { <<"O", "K">>,
      <<" ", "o", "k", "\n">>,
      <<"-", " ", "b", "\n", "-", " ", "a">>,
      <<"-", " ", "a", "\n", "-", " ", "a">>,
      <<>> }

(***************************************************************************)
(* The agents' run() as the controller calls them (src/Agents.py).         *)
(***************************************************************************)
QuestionGenerator_run(reply) == QuestionListParser_parse(reply)

Summarizer_run(reply) == reply

QAAgent_run(reply) == QAPairsParser_parse(reply)

Judge_run(reply) == JudgeOutputParser_parse(reply)

(***************************************************************************)
(* The controller, run_summarization_workflow (src/src/main.py).           *)
(***************************************************************************)
VARIABLES
    pc,                    \* the backend call the controller is about to make
    max_iterations,        \* argument
    output_format,         \* argument
    questions,             \* local
    current_summary,       \* local
    sections_to_highlight, \* local
    workflow_result,       \* local
    iteration,             \* the loop variable, 0-based
    iteration_data,        \* local
    calls,                 \* history: the calls of agents' run(), in order
    raised,                \* the stage whose call raised, "" if none
    error,                 \* the exception that left the controller
    returned,              \* the value returned
    file,                  \* --file, as the file system has it
    exit_code,             \* the code the program exited with
    diagnostic,            \* the error message printed before exit(1)
    agent_run,             \* an agent's run() called on its own
    v1                     \* a run of the controller of src/main.py

vars == <<pc, max_iterations, output_format, questions, current_summary,
          sections_to_highlight, workflow_result, iteration, iteration_data,
          calls, raised, error, returned, file, exit_code, diagnostic,
          agent_run, v1>>

\* what the controller neither reads nor writes
outside == <<file, exit_code, diagnostic, agent_run, v1>>

Query == "query"

Budgets == (-1)..MaxIterations

OutputFormats == {"print", "json"}

NoCallArgs == [sections |-> <<>>, questions |-> <<>>, summary |-> "",
               qa_pairs |-> <<>>]

\* one entry of the call history: the stage, the 1-based iteration (0 before
\* the loop), the keyword arguments passed, and the value run() returned
Call(stage, k, kwargs, args, out) ==
    [stage |-> stage, iteration |-> k, kwargs |-> kwargs, args |-> args,
     out |-> out]

\* workflow_result = {...}
NewWorkflowResult(query, max) ==
    [query |-> query, max_iterations |-> max, iterations |-> <<>>,
     final_summary |-> "", total_iterations |-> 0, status |-> ""]

\* the records numbered from 0: "iteration_number": iteration
NewIterationDataZeroBased(i) ==
    [iteration_number |-> i, summary |-> "", qa_pairs |-> <<>>,
     needs_iteration |-> FALSE, missing_topics |-> <<>>]

\* iteration_data = {...} at the top of the loop body
NewIterationData(i) ==
    [iteration_number |-> i + 1, summary |-> "", qa_pairs |-> <<>>,
     needs_iteration |-> FALSE, missing_topics |-> <<>>]

\* the Answer Extractor left out: the Judge called right after the Summarizer
StageAfterSkipsQA(stage) ==
    CASE stage = "propose" -> "summarize"
      [] stage = "summarize" -> "judge"
      [] stage = "qa" -> "judge"
      [] stage = "judge" -> "summarize"

\* the call the controller makes next, once the call of stage has returned
\* and the run goes on: the statements of the loop body in their order
StageAfter(stage) ==
    CASE stage = "propose" -> "summarize"
      [] stage = "summarize" -> "qa"
      [] stage = "qa" -> "judge"
      [] stage = "judge" -> "summarize"

\* only the latest record kept: workflow_result["iterations"] = [iteration_data]
AppendRecordReplaces(records, data) == <<data>>

\* workflow_result["iterations"].append(iteration_data)
AppendRecord(records, data) == Append(records, data)

\* the loop bound off by one: range(max_iterations + 1)
RangeHasOneMore(i, max) == i <= max

\* for iteration in range(max_iterations): is there a value after i - 1 ?
RangeHas(i, max) == i < max

\* the test inverted: if needs_iteration:
ConvergedInverted(needs_iteration) == needs_iteration

\* if not needs_iteration:
Converged(needs_iteration) == ~needs_iteration

\* the loop variable taken for the count: total_iterations = iteration
CompletedTotalZeroBased(i) == i

\* workflow_result["total_iterations"] = iteration + 1
CompletedTotal(i) == i + 1

\* the summary so far written into the result in every iteration
ContinuingTracksSummary(result, summary) ==
    [result EXCEPT !.final_summary = summary]

\* the result when the loop goes on: the else branch of
\* 'if not needs_iteration' assigns no field of workflow_result
Continuing(result, summary) == result

\* the topics accumulated: sections_to_highlight.extend(missing_topics)
NextSectionsExtended(sections, missing_topics) == sections \o missing_topics

\* sections_to_highlight = missing_topics
NextSections(sections, missing_topics) == missing_topics

\* the probe set passed in another order: questions[::-1]
QAQuestionsReversed(qs) == [i \in 1..Len(qs) |-> qs[Len(qs) + 1 - i]]

\* qa_agent.run(questions=questions, ...)
QAQuestions(qs) == qs

\* the first iteration's summary kept as the final one
ExhaustedFirstSummary(summary, iterations) ==
    IF iterations = <<>> THEN summary ELSE iterations[1].summary

\* workflow_result["final_summary"] = current_summary, after the loop
ExhaustedFinalSummary(summary, iterations) == summary

\* the three assignments of the 'completed' branch
Completed(result, summary, i) ==
    [result EXCEPT !.final_summary = summary,
                   !.total_iterations = CompletedTotal(i),
                   !.status = "completed"]

\* the status of the other branch written after the loop
ExhaustedAsCompleted(result, summary, max) ==
    [result EXCEPT !.final_summary =
                       ExhaustedFinalSummary(summary, result.iterations),
                   !.total_iterations = max,
                   !.status = "completed"]

\* the three assignments after the loop
Exhausted(result, summary, max) ==
    [result EXCEPT !.final_summary =
                       ExhaustedFinalSummary(summary, result.iterations),
                   !.total_iterations = max,
                   !.status = "max_iterations_reached"]

NotReturned == [kind |-> "none"]

\* what a failing backend call raises
BackendErrors == {"quota exceeded", "timed out"}

NoError == [kind |-> "none"]

\* the exception of the failing call; no except clause stands between the
\* call and the caller of run_summarization_workflow
Propagated(cause) == [kind |-> "exception", cause |-> cause]

\* the file main() loaded before it called run_summarization_workflow
LoadedFile == [exists |-> TRUE, loads |-> TRUE]

\* the program has not exited
NotExited == -1

NoAgentRun == [agent |-> "none"]

\* run_summarization_workflow of src/main.py has not been called
NoV1Run == [pc |-> "not run"]

\* the locals of run_summarization_workflow before its first statement
ControllerStart ==
    /\ questions = <<>>
    /\ current_summary = ""
    /\ sections_to_highlight = <<>>
    /\ workflow_result = NewWorkflowResult(Query, max_iterations)
    /\ iteration = 0
    /\ iteration_data = NewIterationData(0)
    /\ calls = <<>>
    /\ raised = ""
    /\ error = NoError
    /\ returned = NotReturned

\* the count of the tuple one short: return current_summary, n - 1
ReturnValueCountsFromZero(format, summary, n, result) ==
    IF format = "print"
    THEN [kind |-> "tuple", summary |-> summary, count |-> n - 1]
    ELSE [kind |-> "dict", result |-> result]

\* return current_summary, n  /  return workflow_result
ReturnValue(format, summary, n, result) ==
    IF format = "print"
    THEN [kind |-> "tuple", summary |-> summary, count |-> n]
    ELSE [kind |-> "dict", result |-> result]

Init ==
    /\ pc = "propose"
    /\ max_iterations \in Budgets
    /\ output_format \in OutputFormats
    /\ ControllerStart
    /\ file = LoadedFile
    /\ exit_code = NotExited
    /\ diagnostic = ""
    /\ agent_run = NoAgentRun
    /\ v1 = NoV1Run

\* questions = question_gen.run(...) and everything up to the first call of
\* the loop body, or to the return when range(max_iterations) is empty
Propose ==
    /\ pc = "propose"
    /\ \E reply \in QuestionReplies :
        LET qs == QuestionGenerator_run(reply)
            result == NewWorkflowResult(Query, max_iterations)
        IN /\ questions' = qs
           /\ current_summary' = ""
           /\ sections_to_highlight' = <<>>
           /\ calls' = Append(calls,
                  Call("propose", 0, {"query", "article"}, NoCallArgs, qs))
           /\ iteration' = 0
           /\ iteration_data' = NewIterationData(0)
           /\ IF RangeHas(0, max_iterations)
              THEN /\ workflow_result' = result
                   /\ pc' = StageAfter("propose")
                   /\ returned' = returned
              ELSE LET final == Exhausted(result, "", max_iterations)
                   IN /\ workflow_result' = final
                      /\ pc' = "returned"
                      /\ returned' = ReturnValue(output_format, "",
                                                 max_iterations, final)
    /\ UNCHANGED <<max_iterations, output_format, raised, error, outside>>

\* current_summary = summarizer.run(article=article, sections=...)
Summarize ==
    /\ pc = "summarize"
    /\ \E reply \in Summaries :
        LET s == Summarizer_run(reply)
        IN /\ current_summary' = s
           /\ iteration_data' = [iteration_data EXCEPT !.summary = s]
           /\ calls' = Append(calls,
                  Call("summarize", iteration + 1, {"article", "sections"},
                       [NoCallArgs EXCEPT !.sections = sections_to_highlight],
                       s))
    /\ pc' = StageAfter("summarize")
    /\ UNCHANGED <<max_iterations, output_format, questions,
                   sections_to_highlight, workflow_result, iteration, raised,
                   error, returned, outside>>

\* qa_pairs = qa_agent.run(questions=questions, summary=current_summary)
QA ==
    /\ pc = "qa"
    /\ \E reply \in QAReplies(QAQuestions(questions)) :
        LET pairs == QAAgent_run(reply)
        IN /\ iteration_data' = [iteration_data EXCEPT !.qa_pairs = pairs]
           /\ calls' = Append(calls,
                  Call("qa", iteration + 1, {"questions", "summary"},
                       [NoCallArgs EXCEPT !.questions = QAQuestions(questions),
                                          !.summary = current_summary],
                       pairs))
    /\ pc' = StageAfter("qa")
    /\ UNCHANGED <<max_iterations, output_format, questions, current_summary,
                   sections_to_highlight, workflow_result, iteration, raised,
                   error, returned, outside>>

\* the run also goes on when the Answer Extractor left a question unanswered
JudgeHeedsAnswers ==
    /\ pc = "judge"
    /\ \E reply \in JudgeReplies :
        LET told == Judge_run(reply)
            verdict == [told EXCEPT !.needs_iteration =
                           \/ @
                           \/ \E i \in 1..Len(iteration_data.qa_pairs) :
                                 iteration_data.qa_pairs[i][2] = <<"n">>]
            data == [iteration_data EXCEPT
                        !.needs_iteration = verdict.needs_iteration,
                        !.missing_topics = verdict.missing_topics]
            result == [workflow_result EXCEPT
                          !.iterations = AppendRecord(@, data)]
        IN /\ calls' = Append(calls,
                  Call("judge", iteration + 1,
                       {"article", "summary", "qa_pairs"},
                       [NoCallArgs EXCEPT !.summary = current_summary,
                                          !.qa_pairs = iteration_data.qa_pairs],
                       told))
           /\ IF Converged(verdict.needs_iteration)
              THEN LET final == Completed(result, current_summary, iteration)
                   IN /\ workflow_result' = final
                      /\ pc' = "returned"
                      /\ returned' = ReturnValue(output_format,
                              current_summary, iteration + 1, final)
                      /\ UNCHANGED <<sections_to_highlight, iteration>>
                      /\ iteration_data' = data
              ELSE /\ sections_to_highlight' =
                          NextSections(sections_to_highlight,
                                       verdict.missing_topics)
                   /\ IF RangeHas(iteration + 1, max_iterations)
                      THEN /\ workflow_result' =
                                  Continuing(result, current_summary)
                           /\ iteration' = iteration + 1
                           /\ iteration_data' =
                                  NewIterationData(iteration + 1)
                           /\ pc' = StageAfter("judge")
                           /\ returned' = returned
                      ELSE LET final == Exhausted(result, current_summary,
                                                  max_iterations)
                           IN /\ workflow_result' = final
                              /\ pc' = "returned"
                              /\ returned' = ReturnValue(output_format,
                                      current_summary, max_iterations, final)
                              /\ iteration' = iteration
                              /\ iteration_data' = data
    /\ UNCHANGED <<max_iterations, output_format, questions, current_summary,
                   raised, error, outside>>

\* needs_iteration, missing_topics = judge_agent.run(...), the rest of the
\* loop body, and either the return or the top of the next iteration
Judge ==
    /\ pc = "judge"
    /\ \E reply \in JudgeReplies :
        LET verdict == Judge_run(reply)
            data == [iteration_data EXCEPT
                        !.needs_iteration = verdict.needs_iteration,
                        !.missing_topics = verdict.missing_topics]
            result == [workflow_result EXCEPT
                          !.iterations = AppendRecord(@, data)]
        IN /\ calls' = Append(calls,
                  Call("judge", iteration + 1,
                       {"article", "summary", "qa_pairs"},
                       [NoCallArgs EXCEPT !.summary = current_summary,
                                          !.qa_pairs = iteration_data.qa_pairs],
                       verdict))
           /\ IF Converged(verdict.needs_iteration)
              THEN LET final == Completed(result, current_summary, iteration)
                   IN /\ workflow_result' = final
                      /\ pc' = "returned"
                      /\ returned' = ReturnValue(output_format,
                              current_summary, iteration + 1, final)
                      /\ UNCHANGED <<sections_to_highlight, iteration>>
                      /\ iteration_data' = data
              ELSE /\ sections_to_highlight' =
                          NextSections(sections_to_highlight,
                                       verdict.missing_topics)
                   /\ IF RangeHas(iteration + 1, max_iterations)
                      THEN /\ workflow_result' =
                                  Continuing(result, current_summary)
                           /\ iteration' = iteration + 1
                           /\ iteration_data' =
                                  NewIterationData(iteration + 1)
                           /\ pc' = StageAfter("judge")
                           /\ returned' = returned
                      ELSE LET final == Exhausted(result, current_summary,
                                                  max_iterations)
                           IN /\ workflow_result' = final
                              /\ pc' = "returned"
                              /\ returned' = ReturnValue(output_format,
                                      current_summary, max_iterations, final)
                              /\ iteration' = iteration
                              /\ iteration_data' = data
    /\ UNCHANGED <<max_iterations, output_format, questions, current_summary,
                   raised, error, outside>>

\* the exception caught and the loop body continued with the next statement
StageRaisesSwallowed ==
    /\ pc \in {"propose", "summarize", "qa", "judge"}
    /\ \E cause \in BackendErrors : error' = Propagated(cause)
    /\ raised' = pc
    /\ pc' = StageAfter(pc)
    /\ UNCHANGED <<max_iterations, output_format, questions, current_summary,
                   sections_to_highlight, workflow_result, iteration,
                   iteration_data, calls, returned, outside>>

\* a call of run() raises: nothing in the controller catches it
StageRaises ==
    /\ pc \in {"propose", "summarize", "qa", "judge"}
    /\ \E cause \in BackendErrors : error' = Propagated(cause)
    /\ raised' = pc
    /\ pc' = "raised"
    /\ UNCHANGED <<max_iterations, output_format, questions, current_summary,
                   sections_to_highlight, workflow_result, iteration,
                   iteration_data, calls, returned, outside>>

Next == Propose \/ Summarize \/ QA \/ Judge \/ StageRaises

Spec == Init /\ [][Next]_vars

(***************************************************************************)
(* The run in which every call of run() returns.                           *)
(***************************************************************************)
NextReturns == Propose \/ Summarize \/ QA \/ Judge

\* a blocking call that returns lets the single control thread go on
SpecReturns == Init /\ [][NextReturns]_vars /\ WF_vars(NextReturns)

(***************************************************************************)
(* The command line entry, __main__ of src/src/main.py: the file check and *)
(* the load, then the workflow.                                            *)
(***************************************************************************)
\* --file as the file system has it: no such file, a file whose load
\* raises, a file that loads
Files ==
    { [exists |-> FALSE, loads |-> FALSE],
      [exists |-> TRUE, loads |-> FALSE],
      [exists |-> TRUE, loads |-> TRUE] }

\* os.path.isfile(args.file)
IsFile(f) == f.exists

\* the load taken to succeed whatever the file
LoadNeverRaises(f) == FALSE

\* load_file_content(args.file) raises
LoadRaises(f) == ~f.loads

InitMain ==
    /\ pc = "main"
    /\ max_iterations \in Budgets
    /\ output_format \in OutputFormats
    /\ ControllerStart
    /\ file \in Files
    /\ exit_code = NotExited
    /\ diagnostic = ""
    /\ agent_run = NoAgentRun
    /\ v1 = NoV1Run

\* from parse_args() to the call of run_summarization_workflow
Main ==
    /\ pc = "main"
    /\ IF ~IsFile(file)
       THEN /\ diagnostic' = "Error: File does not exist."
            /\ exit_code' = 1
            /\ pc' = "exited"
       ELSE IF LoadRaises(file)
       THEN /\ diagnostic' = "Error loading file"
            /\ exit_code' = 1
            /\ pc' = "exited"
       ELSE /\ pc' = "propose"
            /\ UNCHANGED <<exit_code, diagnostic>>
    /\ UNCHANGED <<max_iterations, output_format, questions, current_summary,
                   sections_to_highlight, workflow_result, iteration,
                   iteration_data, calls, raised, error, returned, file,
                   agent_run, v1>>

NextMain == Main \/ Propose \/ Summarize \/ QA \/ Judge \/ StageRaises

SpecMain == InitMain /\ [][NextMain]_vars

(***************************************************************************)
(* The agents' run() on their own, for every reply of the backend: the     *)
(* Answer Extractor of src/Agents.py and the Judge of src/src/Agents.py.   *)
(***************************************************************************)
\* the sequences over S of length at most n
SeqsUpTo(S, n) == UNION {[1..k -> S] : k \in 0..n}

\* the probe sets the Answer Extractor is called with
QuestionLists ==
    { <<>>, <<QuestionText(1)>>, <<QuestionText(1), QuestionText(2)>> }

\* lines of a reply: an answer to q1, an answer to q2, a line with no colon
QAReplyLines ==
    { <<"-", " ", "q", "1", ":", " ", "y">>,
      <<"-", " ", "q", "2", ":", " ", "n">>,
      <<"q", "1", " ", "y">> }

\* what the backend may reply, whatever the prompt asked for
FreeQAReplies == {Join(ls, "\n") : ls \in SeqsUpTo(QAReplyLines, MaxReplyLines)}

\* issue: Optional[str]
Issues == {"None", "missing atomic fact"}

\* class QuestionEvaluationType: qa, result, issue
QuestionEvaluationType ==
    [qa : {[question |-> QuestionText(1), answer |-> <<"y">>]},
     result : BOOLEAN,
     issue : Issues]

\* class JudgeEvaluationType: evaluations, judgment; every value of the
\* schema is a reply the structured backend may give
JudgeEvaluationType ==
    [evaluations : SeqsUpTo(QuestionEvaluationType, MaxEvaluations),
     judgment : BOOLEAN]

\* Judge.run of src/src/Agents.py: return self.chain.invoke(...), the reply
\* as the schema parsed it
StructuredJudge_run(reply) == reply

InitAgents ==
    /\ pc = "agents"
    /\ max_iterations = 0
    /\ output_format = "print"
    /\ ControllerStart
    /\ file = LoadedFile
    /\ exit_code = NotExited
    /\ diagnostic = ""
    /\ agent_run = NoAgentRun
    /\ v1 = NoV1Run

\* QAAgent.run(questions, summary) of src/Agents.py
RunQAAgent ==
    /\ pc = "agents"
    /\ agent_run = NoAgentRun
    /\ \E qs \in QuestionLists, reply \in FreeQAReplies :
          agent_run' = [agent |-> "QAAgent", questions |-> qs,
                        reply |-> reply, out |-> QAAgent_run(reply)]
    /\ UNCHANGED <<pc, max_iterations, output_format, questions,
                   current_summary, sections_to_highlight, workflow_result,
                   iteration, iteration_data, calls, raised, error, returned,
                   file, exit_code, diagnostic, v1>>

\* Judge.run(article, summary, qa_pairs) of src/src/Agents.py
RunJudge ==
    /\ pc = "agents"
    /\ agent_run = NoAgentRun
    /\ \E reply \in JudgeEvaluationType :
          agent_run' = [agent |-> "Judge", out |-> StructuredJudge_run(reply)]
    /\ UNCHANGED <<pc, max_iterations, output_format, questions,
                   current_summary, sections_to_highlight, workflow_result,
                   iteration, iteration_data, calls, raised, error, returned,
                   file, exit_code, diagnostic, v1>>

\* the characters of a reply text: two letters, one of them upper case, the
\* hyphen, the space and the line break
TextChars == {"o", "K", "-", " ", "\n"}

\* every text the backend may reply
Texts == SeqsUpTo(TextChars, MaxTextLen)

\* JudgeOutputParser().parse(text) of src/Agents.py
RunJudgeOutputParser ==
    /\ pc = "agents"
    /\ agent_run = NoAgentRun
    /\ \E text \in Texts :
          agent_run' = [agent |-> "JudgeOutputParser", text |-> text,
                        out |-> JudgeOutputParser_parse(text)]
    /\ UNCHANGED <<pc, max_iterations, output_format, questions,
                   current_summary, sections_to_highlight, workflow_result,
                   iteration, iteration_data, calls, raised, error, returned,
                   file, exit_code, diagnostic, v1>>

\* QuestionListParser().parse(text) of src/Agents.py
RunQuestionListParser ==
    /\ pc = "agents"
    /\ agent_run = NoAgentRun
    /\ \E text \in Texts :
          agent_run' = [agent |-> "QuestionListParser", text |-> text,
                        out |-> QuestionListParser_parse(text)]
    /\ UNCHANGED <<pc, max_iterations, output_format, questions,
                   current_summary, sections_to_highlight, workflow_result,
                   iteration, iteration_data, calls, raised, error, returned,
                   file, exit_code, diagnostic, v1>>

\* class QuestionsOutputType: its one field, questions; what
\* QuestionGenerator.run of src/src/Agents.py returns
QuestionsOutputType == {[questions |-> qs] : qs \in QuestionLists}

\* class QAAgentEvaluationsOutputType: evaluations
QAAgentEvaluationsOutputType ==
    [evaluations : SeqsUpTo(QuestionEvaluationType, MaxEvaluations)]

\* QAAgentRunner.run: combined = list(questions_output.questions) +
\* list(questions_output.acu_questions); return self.chain.invoke(...);
\* reading a field the value does not have raises AttributeError
QAAgentRunner_run(questions_output, reply) ==
    IF "acu_questions" \notin DOMAIN questions_output
    THEN [kind |-> "raised", error |-> "AttributeError"]
    ELSE [kind |-> "returned",
          questions_list |-> questions_output.questions
                                 \o questions_output.acu_questions,
          out |-> reply]

\* QAAgentRunner.run(questions_output, summary) of src/src/Agents.py
RunQAAgentRunner ==
    /\ pc = "agents"
    /\ agent_run = NoAgentRun
    /\ \E questions_output \in QuestionsOutputType,
          reply \in QAAgentEvaluationsOutputType :
          agent_run' = [agent |-> "QAAgentRunner",
                        questions_output |-> questions_output,
                        reply |-> reply,
                        outcome |-> QAAgentRunner_run(questions_output, reply)]
    /\ UNCHANGED <<pc, max_iterations, output_format, questions,
                   current_summary, sections_to_highlight, workflow_result,
                   iteration, iteration_data, calls, raised, error, returned,
                   file, exit_code, diagnostic, v1>>

\* the classes of src/src/Agents.py that src/src/main.py imports: for each
\* method the parameters it declares after self, none with a default
AgentClasses ==
    [QuestionGenerator |->
         [__init__ |-> {"requests_per_second"},
          run |-> {"query", "article"}],
     Summarizer |->
         [__init__ |-> {"requests_per_second"},
          run |-> {"query", "article", "sections"}],
     QAAgent |->
         [__init__ |-> {}],
     Judge |->
         [__init__ |-> {"requests_per_second"},
          run |-> {"article", "summary", "qa_pairs"}]]

\* the calls run_summarization_workflow makes on the classes and on their
\* instances, with the keyword arguments it passes
CallSites ==
    { [class |-> "QuestionGenerator", method |-> "__init__", kwargs |-> {}],
      [class |-> "Summarizer", method |-> "__init__", kwargs |-> {}],
      [class |-> "QAAgent", method |-> "__init__", kwargs |-> {}],
      [class |-> "Judge", method |-> "__init__", kwargs |-> {}],
      [class |-> "QuestionGenerator", method |-> "run",
       kwargs |-> {"query", "article"}],
      [class |-> "Summarizer", method |-> "run",
       kwargs |-> {"article", "sections"}],
      [class |-> "QAAgent", method |-> "run",
       kwargs |-> {"questions", "summary"}],
      [class |-> "Judge", method |-> "run",
       kwargs |-> {"article", "summary", "qa_pairs"}] }

\* Python's binding of a call: the method must exist, and the keywords
\* passed must be the parameters declared
BindCall(site) ==
    LET methods == AgentClasses[site.class]
    IN IF site.method \notin DOMAIN methods THEN "AttributeError"
       ELSE IF site.kwargs = methods[site.method] THEN "bound"
       ELSE "TypeError"

\* one call of the controller made on the classes of src/src/Agents.py
RunCallSite ==
    /\ pc = "agents"
    /\ agent_run = NoAgentRun
    /\ \E site \in CallSites :
          agent_run' = [agent |-> "call site", site |-> site,
                        outcome |-> BindCall(site)]
    /\ UNCHANGED <<pc, max_iterations, output_format, questions,
                   current_summary, sections_to_highlight, workflow_result,
                   iteration, iteration_data, calls, raised, error, returned,
                   file, exit_code, diagnostic, v1>>

NextAgents ==
    \/ RunQAAgent
    \/ RunJudge
    \/ RunJudgeOutputParser
    \/ RunQuestionListParser
    \/ RunQAAgentRunner
    \/ RunCallSite

SpecAgents == InitAgents /\ [][NextAgents]_vars

(***************************************************************************)
(* The first version of the controller, run_summarization_workflow of      *)
(* src/main.py, run on the responses a run of src/src/main.py received.    *)
(***************************************************************************)
\* the locals of src/main.py's run_summarization_workflow before its first
\* statement
V1_Start(max) ==
    [pc |-> "propose", max_iterations |-> max, questions |-> <<>>,
     current_summary |-> "", sections_to_highlight |-> <<>>, iteration |-> 0,
     calls |-> <<>>, raised |-> "", error |-> NoError,
     returned |-> NotReturned]

\* return current_summary, n
V1_Return(st, summary, n) ==
    [st EXCEPT !.pc = "returned",
               !.returned = [kind |-> "tuple", summary |-> summary,
                             count |-> n]]

\* the call of run() that src/main.py makes in state st, answered by the
\* response r, and the statements up to the next call or to the return
V1_Call(st, r) ==
    IF r.raises
    THEN [st EXCEPT !.pc = "raised", !.raised = st.pc, !.error = r.error]
    ELSE CASE st.pc = "propose" ->
                LET after == [st EXCEPT
                        !.questions = r.out,
                        !.current_summary = "",
                        !.sections_to_highlight = <<>>,
                        !.calls = Append(@, Call("propose", 0,
                                     {"query", "article"}, NoCallArgs, r.out))]
                IN IF RangeHas(0, st.max_iterations)
                   THEN [after EXCEPT !.pc = "summarize"]
                   ELSE V1_Return(after, "", st.max_iterations)
           [] st.pc = "summarize" ->
                [st EXCEPT
                    !.current_summary = r.out,
                    !.calls = Append(@, Call("summarize", st.iteration + 1,
                                  {"article", "sections"},
                                  [NoCallArgs EXCEPT !.sections =
                                       st.sections_to_highlight],
                                  r.out)),
                    !.pc = "qa"]
           [] st.pc = "qa" ->
                [st EXCEPT
                    !.calls = Append(@, Call("qa", st.iteration + 1,
                                  {"questions", "summary"},
                                  [NoCallArgs EXCEPT
                                       !.questions = st.questions,
                                       !.summary = st.current_summary],
                                  r.out)),
                    !.pc = "judge"]
           [] st.pc = "judge" ->
                LET qa_pairs == st.calls[Len(st.calls)].out
                    after == [st EXCEPT
                        !.calls = Append(@, Call("judge", st.iteration + 1,
                                      {"article", "summary", "qa_pairs"},
                                      [NoCallArgs EXCEPT
                                           !.summary = st.current_summary,
                                           !.qa_pairs = qa_pairs],
                                      r.out))]
                IN IF ~r.out.needs_iteration
                   THEN V1_Return(after, st.current_summary, st.iteration + 1)
                   ELSE IF RangeHas(st.iteration + 1, st.max_iterations)
                   THEN [after EXCEPT
                            !.sections_to_highlight = r.out.missing_topics,
                            !.iteration = st.iteration + 1,
                            !.pc = "summarize"]
                   ELSE V1_Return([after EXCEPT !.sections_to_highlight =
                                       r.out.missing_topics],
                                  st.current_summary, st.max_iterations)

\* src/main.py's run_summarization_workflow on a sequence of responses: it
\* runs until it returns, a call raises, or no response is left
RECURSIVE V1_run_summarization_workflow(_, _)
V1_run_summarization_workflow(st, responses) ==
    IF st.pc \in {"returned", "raised"} \/ responses = <<>>
    THEN st
    ELSE V1_run_summarization_workflow(V1_Call(st, Head(responses)),
                                       Tail(responses))

\* the responses the run of src/src/main.py received: what its calls
\* returned, and the exception of the call that raised
Responses ==
    [j \in 1..Len(calls) |->
        [raises |-> FALSE, out |-> calls[j].out, error |-> NoError]]
    \o (IF pc = "raised"
        THEN <<[raises |-> TRUE, out |-> <<>>, error |-> error]>>
        ELSE <<>>)

\* the controller of src/main.py is run with the budget and the responses
\* of the finished run of src/src/main.py
RunV1 ==
    /\ pc \in {"returned", "raised"}
    /\ v1 = NoV1Run
    /\ v1' = V1_run_summarization_workflow(V1_Start(max_iterations),
                                           Responses)
    /\ UNCHANGED <<pc, max_iterations, output_format, questions,
                   current_summary, sections_to_highlight, workflow_result,
                   iteration, iteration_data, calls, raised, error, returned,
                   file, exit_code, diagnostic, agent_run>>

\* both controllers, the second in 'print' mode
InitVersions ==
    /\ Init
    /\ output_format = "print"

NextVersions == Propose \/ Summarize \/ QA \/ Judge \/ StageRaises \/ RunV1

SpecVersions == InitVersions /\ [][NextVersions]_vars

(***************************************************************************)
(* Vocabulary of the properties.                                           *)
(***************************************************************************)
Stages == {"summarize", "qa", "judge"}

CallsOf(stage) == SelectSeq(calls, LAMBDA c : c.stage = stage)

\* the k-th call of a stage: its call in iteration k
CallIn(stage, k) == CallsOf(stage)[k]

Records == workflow_result.iterations

TerminalStatuses == {"completed", "max_iterations_reached"}

JudgeConvergedIn(k) ==
    /\ k \in 1..Len(CallsOf("judge"))
    /\ ~CallIn("judge", k).out.needs_iteration

NoDuplicates(xs) ==
    \A i, j \in 1..Len(xs) : xs[i] = xs[j] => i = j

\* xs without the later occurrences of its elements
RECURSIVE Dedupe(_)
Dedupe(xs) ==
    IF xs = <<>> THEN <<>>
    ELSE LET init == Dedupe(SubSeq(xs, 1, Len(xs) - 1))
             last == xs[Len(xs)]
         IN IF \E i \in 1..Len(init) : init[i] = last
            THEN init
            ELSE Append(init, last)

\* topics is the list of one topic per failing verdict, for some verdicts
\* on the questions qs in their order; a failing verdict's issue is free text
RECURSIVE DerivableFromVerdicts(_, _)
DerivableFromVerdicts(topics, qs) ==
    IF topics = <<>> THEN TRUE
    ELSE IF qs = <<>> THEN FALSE
    ELSE \/ DerivableFromVerdicts(Tail(topics), Tail(qs))
         \/ DerivableFromVerdicts(topics, Tail(qs))

(***************************************************************************)
(* C1: with max_iterations >= 1 the result never holds more than           *)
(* max_iterations iteration records, and when the run has returned it      *)
(* holds exactly max_iterations of them unless the status is 'completed'   *)
(* at an earlier iteration.                                                *)
(***************************************************************************)
C1_IterationBound ==
    max_iterations >= 1 =>
        /\ Len(Records) <= max_iterations
        /\ pc = "returned" =>
              \/ Len(Records) = max_iterations
              \/ /\ workflow_result.status = "completed"
                 /\ Len(Records) < max_iterations

C1_Witness ==
    /\ pc = "returned"
    /\ max_iterations = 3
    /\ Len(Records) = 2
    /\ workflow_result.status = "completed"

(***************************************************************************)
(* C2: when the Judge reports convergence in iteration k, that call is the *)
(* last call of the run, the run has returned with status 'completed',     *)
(* total_iterations is k and final_summary is the summary the Summarizer   *)
(* returned in iteration k; the value returned carries the same summary    *)
(* and count.                                                              *)
(***************************************************************************)
C2_ConvergenceEndsRun ==
    \A k \in 1..Len(CallsOf("judge")) :
        JudgeConvergedIn(k) =>
            /\ \A stage \in Stages : Len(CallsOf(stage)) = k
            /\ calls[Len(calls)].stage = "judge"
            /\ pc = "returned"
            /\ workflow_result.status = "completed"
            /\ workflow_result.total_iterations = k
            /\ workflow_result.final_summary = CallIn("summarize", k).out
            /\ returned.kind = "tuple" =>
                  /\ returned.count = k
                  /\ returned.summary = CallIn("summarize", k).out
            /\ returned.kind = "dict" => returned.result = workflow_result

C2_Witness ==
    /\ JudgeConvergedIn(2)
    /\ max_iterations = 3
    /\ CallIn("summarize", 1).out # CallIn("summarize", 2).out

(***************************************************************************)
(* C3: a run with max_iterations >= 1 in which the Judge never reported    *)
(* convergence has, when it returns, made exactly max_iterations calls of  *)
(* each stage, has status 'max_iterations_reached', total_iterations =     *)
(* max_iterations, and final_summary is the summary of the last iteration. *)
(***************************************************************************)
C3_ExhaustedBudget ==
    ( /\ pc = "returned"
      /\ max_iterations >= 1
      /\ \A k \in 1..Len(CallsOf("judge")) : ~JudgeConvergedIn(k) ) =>
        /\ \A stage \in Stages : Len(CallsOf(stage)) = max_iterations
        /\ Len(Records) = max_iterations
        /\ workflow_result.status = "max_iterations_reached"
        /\ workflow_result.total_iterations = max_iterations
        /\ workflow_result.final_summary =
               CallIn("summarize", max_iterations).out
        /\ returned.kind = "tuple" =>
              /\ returned.count = max_iterations
              /\ returned.summary = CallIn("summarize", max_iterations).out

C3_Witness ==
    /\ pc = "returned"
    /\ max_iterations = 3
    /\ workflow_result.status = "max_iterations_reached"
    /\ CallIn("summarize", 1).out # CallIn("summarize", 3).out

(***************************************************************************)
(* C4: when every call returns, a run never makes more than one Question   *)
(* Proposer call, which is its first call, nor, with max_iterations >= 1,  *)
(* more than max_iterations calls of each other stage, and it eventually   *)
(* returns with one of the two terminal statuses.                          *)
(***************************************************************************)
CallsWithinBudget ==
    /\ Len(CallsOf("propose")) <= 1
    /\ calls # <<>> => calls[1].stage = "propose"
    /\ max_iterations >= 1 =>
          \A stage \in Stages : Len(CallsOf(stage)) <= max_iterations

C4_Terminates ==
    /\ []CallsWithinBudget
    /\ <>(/\ pc = "returned"
          /\ workflow_result.status \in TerminalStatuses)

C4_Witness ==
    /\ pc = "returned"
    /\ max_iterations = 3
    /\ Len(calls) = 1 + 3 * max_iterations

(***************************************************************************)
(* C5: when the Question Proposer returns no question the run aborts with  *)
(* EmptyProbeSetError, and no Summarizer call is made (stated for the      *)
(* budgets the interface admits, max_iterations >= 1).                     *)
(***************************************************************************)
C5_EmptyProbeSetAborts ==
    ( /\ max_iterations >= 1
      /\ \E j \in 1..Len(calls) :
            calls[j].stage = "propose" /\ calls[j].out = <<>> ) =>
        /\ pc = "raised"
        /\ raised = "EmptyProbeSetError"
        /\ CallsOf("summarize") = <<>>

(***************************************************************************)
(* C6: the sections passed to the Summarizer in iteration k + 1 are the    *)
(* missing topics the Judge returned in iteration k, and nothing else: no  *)
(* topic of an earlier iteration that iteration k did not report.          *)
(***************************************************************************)
C6_FocusTopicsReplaced ==
    \A k \in 1..Len(CallsOf("summarize")) :
        k >= 2 =>
            LET sections == CallIn("summarize", k).args.sections
                reported == CallIn("judge", k - 1).out.missing_topics
            IN /\ sections = reported
               /\ \A i \in 1..Len(sections) :
                     \E j \in 1..Len(reported) : sections[i] = reported[j]

C6_Witness ==
    /\ Len(CallsOf("summarize")) = 3
    /\ CallIn("judge", 1).out.missing_topics = << <<"b">>, <<"a">> >>
    /\ CallIn("judge", 2).out.missing_topics = << <<"a">>, <<"a">> >>
    /\ CallIn("summarize", 3).args.sections = << <<"a">>, <<"a">> >>

(***************************************************************************)
(* C7: the sections passed to the next iteration's Summarizer hold no      *)
(* topic twice and keep the order in which the Judge's reply first named   *)
(* the topics (stated for the runs with a probe question).                 *)
(***************************************************************************)
C7_FocusTopicsDeduplicated ==
    \A k \in 1..Len(CallsOf("summarize")) :
        (k >= 2 /\ questions # <<>>) =>
            LET sections == CallIn("summarize", k).args.sections
                reported == CallIn("judge", k - 1).out.missing_topics
            IN /\ NoDuplicates(sections)
               /\ sections = Dedupe(reported)

(***************************************************************************)
(* C8: after a non-converged iteration the next sections are one topic per *)
(* failing per-question verdict of that iteration (its issue, else its     *)
(* question) and nothing for a passing verdict: for some verdicts on the   *)
(* probe questions, the sections are the list so derived (stated for the   *)
(* runs with a probe question and the Judge replies that name no topic     *)
(* twice).                                                                 *)
(***************************************************************************)
C8_TopicsFromFailingVerdicts ==
    \A k \in 1..Len(CallsOf("summarize")) :
        LET sections == CallIn("summarize", k).args.sections
        IN (k >= 2 /\ questions # <<>> /\ NoDuplicates(sections)) =>
               DerivableFromVerdicts(sections,
                                     CallIn("qa", k - 1).args.questions)

(***************************************************************************)
(* C9: the Question Proposer is called once, before every other call, and  *)
(* every Answer Extractor call receives the questions it returned, in the  *)
(* same order.                                                             *)
(***************************************************************************)
C9_ProbeSetFixed ==
    /\ Len(CallsOf("propose")) <= 1
    /\ calls # <<>> => calls[1].stage = "propose"
    /\ pc = "returned" => Len(CallsOf("propose")) = 1
    /\ \A k \in 1..Len(CallsOf("qa")) :
          CallIn("qa", k).args.questions = CallIn("propose", 1).out

C9_Witness ==
    /\ Len(CallsOf("qa")) = 3
    /\ Len(CallIn("propose", 1).out) = ProbeCount
    /\ CallIn("summarize", 1).out # CallIn("summarize", 2).out

(***************************************************************************)
(* C10: the number of probe questions a run uses is the configured         *)
(* constant, whatever the backend replied (stated for the replies that     *)
(* hold a question).                                                       *)
(***************************************************************************)
C10_FixedProbeCardinality ==
    /\ \A j \in 1..Len(CallsOf("propose")) :
          CallIn("propose", j).out # <<>> =>
              Len(CallIn("propose", j).out) = ProbeCount
    /\ \A k \in 1..Len(CallsOf("qa")) :
          CallIn("qa", k).args.questions # <<>> =>
              Len(CallIn("qa", k).args.questions) = ProbeCount

(***************************************************************************)
(* C11: the calls of a run are, in order, the Question Proposer's and then *)
(* for iteration 1, 2, ... one Summarizer call, one Answer Extractor call  *)
(* and one Judge call, none repeated; a call is made only once the call    *)
(* before it has returned: the next call to make is the successor of the   *)
(* last that returned, and it is passed what the earlier calls of its      *)
(* iteration returned.                                                     *)
(***************************************************************************)
\* the stage of the j-th call of a run
StageAt(j) ==
    IF j = 1 THEN "propose"
    ELSE CASE (j - 2) % 3 = 0 -> "summarize"
           [] (j - 2) % 3 = 1 -> "qa"
           [] (j - 2) % 3 = 2 -> "judge"

\* the 1-based iteration of the j-th call of a run, 0 for the first
IterationAt(j) == IF j = 1 THEN 0 ELSE ((j - 2) \div 3) + 1

C11_StagesInOrder ==
    /\ \A j \in 1..Len(calls) :
          /\ calls[j].stage = StageAt(j)
          /\ calls[j].iteration = IterationAt(j)
    /\ pc \in Stages \cup {"propose"} => pc = StageAt(Len(calls) + 1)
    /\ \A k \in 1..Len(CallsOf("qa")) :
          CallIn("qa", k).args.summary = CallIn("summarize", k).out
    /\ \A k \in 1..Len(CallsOf("judge")) :
          /\ CallIn("judge", k).args.summary = CallIn("summarize", k).out
          /\ CallIn("judge", k).args.qa_pairs = CallIn("qa", k).out

C11_Witness ==
    /\ Len(calls) = 7
    /\ pc = "summarize"
    /\ iteration = 2
    /\ CallIn("summarize", 1).out # CallIn("summarize", 2).out

(***************************************************************************)
(* C12: when the Summarizer, Answer Extractor or Judge call of iteration k *)
(* raises, the run is over: the calls made are those that returned before  *)
(* it and none is made afterwards, the records are those of iterations     *)
(* 1..k-1, no terminal status is written and nothing is returned.          *)
(***************************************************************************)
\* the calls of its iteration that returned before the call of stage
CallsBefore(stage) ==
    CASE stage = "summarize" -> 0
      [] stage = "qa" -> 1
      [] stage = "judge" -> 2

C12_FailureAborts ==
    raised \in Stages =>
        /\ pc = "raised"
        /\ Len(calls) = 1 + 3 * iteration + CallsBefore(raised)
        /\ Len(Records) = iteration
        /\ \A i \in 1..Len(Records) : Records[i].iteration_number = i
        /\ workflow_result.status \notin TerminalStatuses
        /\ returned = NotReturned

C12_Witness ==
    /\ raised = "judge"
    /\ iteration = 1
    /\ Len(Records) = 1
    /\ iteration_data.summary # ""
    /\ iteration_data.qa_pairs # <<>>

(***************************************************************************)
(* C13: the error that leaves the controller after a failed backend call   *)
(* names the stage whose call failed.                                      *)
(***************************************************************************)
C13_ErrorNamesStage ==
    pc = "raised" =>
        /\ "stage" \in DOMAIN error
        /\ error.stage = raised

(***************************************************************************)
(* C14: in what the Judge returns, the overall verdict is true only when   *)
(* every per-pair verdict is true.                                         *)
(***************************************************************************)
C14_JudgmentOnlyIfAllTrue ==
    agent_run.agent = "Judge" =>
        LET evaluations == agent_run.out.evaluations
        IN agent_run.out.judgment =>
               \A i \in 1..Len(evaluations) : evaluations[i].result

(***************************************************************************)
(* C15: for every list of questions and every reply of the backend, the    *)
(* Answer Extractor returns one result per question, in the order of the   *)
(* questions: as many results as questions, the i-th about the i-th.       *)
(***************************************************************************)
C15_OneResultPerQuestion ==
    agent_run.agent = "QAAgent" =>
        /\ Len(agent_run.out) = Len(agent_run.questions)
        /\ \A i \in 1..Len(agent_run.out) :
              agent_run.out[i][1] = agent_run.questions[i]

(***************************************************************************)
(* C16: the iteration records are append-only.  At every point there is    *)
(* one record per iteration whose Judge call has returned, the i-th being  *)
(* what iteration i produced; a step leaves the records as they are or     *)
(* appends one record to them, and it appends one exactly when a Judge     *)
(* call returns.                                                           *)
(***************************************************************************)
\* the record of iteration i holds what the calls of iteration i returned
RecordOfIteration(i) ==
    /\ Records[i].iteration_number = i
    /\ Records[i].summary = CallIn("summarize", i).out
    /\ Records[i].qa_pairs = CallIn("qa", i).out
    /\ Records[i].needs_iteration = CallIn("judge", i).out.needs_iteration
    /\ Records[i].missing_topics = CallIn("judge", i).out.missing_topics

RecordsMatchIterations ==
    /\ Len(Records) = Len(CallsOf("judge"))
    /\ \A i \in 1..Len(Records) : RecordOfIteration(i)

RecordsKeptOrAppended ==
    LET old == workflow_result.iterations
        new == workflow_result'.iterations
    IN /\ Len(new) \in {Len(old), Len(old) + 1}
       /\ SubSeq(new, 1, Len(old)) = old
       /\ Len(new) = Len(old) + 1 <=>
              /\ Len(calls') = Len(calls) + 1
              /\ calls'[Len(calls')].stage = "judge"

C16_RecordsAppendOnly ==
    /\ []RecordsMatchIterations
    /\ [][RecordsKeptOrAppended]_vars

C16_Witness ==
    /\ Len(Records) = 2
    /\ pc = "qa"
    /\ iteration = 2
    /\ Records[1].missing_topics # Records[2].missing_topics
    /\ Records[1].summary # Records[2].summary

(***************************************************************************)
(* C17: the result exists from the start of the run with its query and     *)
(* budget; final_summary, total_iterations and status keep their initial   *)
(* values until the run returns and are written in one step, the step that *)
(* returns, and never again; the status written is 'completed' or          *)
(* 'max_iterations_reached', and it is 'completed' if and only if the last *)
(* iteration executed is one whose Judge reported convergence.             *)
(***************************************************************************)
\* the three fields written at termination
Finals(result) ==
    <<result.final_summary, result.total_iterations, result.status>>

ResultFinalizedAtReturn ==
    /\ workflow_result.query = Query
    /\ workflow_result.max_iterations = max_iterations
    /\ pc # "returned" => Finals(workflow_result) = <<"", 0, "">>
    /\ pc = "returned" =>
          /\ workflow_result.status \in TerminalStatuses
          /\ workflow_result.status = "completed" <=>
                 JudgeConvergedIn(Len(CallsOf("judge")))

FinalsWrittenOnce ==
    Finals(workflow_result') # Finals(workflow_result) =>
        /\ Finals(workflow_result) = <<"", 0, "">>
        /\ pc # "returned"
        /\ pc' = "returned"

C17_FinalizedOnce ==
    /\ []ResultFinalizedAtReturn
    /\ [][FinalsWrittenOnce]_vars

C17_Witness ==
    /\ pc = "returned"
    /\ max_iterations = 2
    /\ Len(Records) = 2
    /\ workflow_result.status = "completed"
    /\ workflow_result.final_summary = "s2"

(***************************************************************************)
(* C18: every Summarizer call is passed the query, the document and the    *)
(* focus topics, and the focus topics of iteration 1 are empty.            *)
(***************************************************************************)
C18_SummarizerGetsQuery ==
    \A k \in 1..Len(CallsOf("summarize")) :
        /\ {"query", "article", "sections"} \subseteq
               CallIn("summarize", k).kwargs
        /\ k = 1 => CallIn("summarize", k).args.sections = <<>>

(***************************************************************************)
(* C19: the number of iterations, the terminal status and the focus topics *)
(* fed forward are a function of what the Judge returned and of the budget *)
(* alone: whatever the Answer Extractor returned, a run that has returned  *)
(* has the flow computed from its Judge outputs.                           *)
(***************************************************************************)
\* what the Judge returned in iterations 1, 2, ...
JudgeOuts ==
    [k \in 1..Len(CallsOf("judge")) |-> CallIn("judge", k).out]

\* the iterations in which the Judge reported convergence
ConvergedAt(js) == {k \in 1..Len(js) : ~js[k].needs_iteration}

\* the flow of a finished run whose Judge returned js, under budget max
ExpectedFlow(js, max) ==
    [iterations |-> IF ConvergedAt(js) # {} THEN Least(ConvergedAt(js))
                    ELSE IF max >= 0 THEN max ELSE 0,
     status |-> IF ConvergedAt(js) # {} THEN "completed"
                ELSE "max_iterations_reached",
     topics |-> [k \in 1..Len(js) |->
                    IF k = 1 THEN <<>> ELSE js[k - 1].missing_topics]]

\* the flow of the run
ObservedFlow ==
    [iterations |-> Len(Records),
     status |-> workflow_result.status,
     topics |-> [k \in 1..Len(CallsOf("summarize")) |->
                    CallIn("summarize", k).args.sections]]

C19_JudgeAloneDecides ==
    pc = "returned" => ObservedFlow = ExpectedFlow(JudgeOuts, max_iterations)

C19_Witness ==
    /\ pc = "returned"
    /\ max_iterations = 3
    /\ JudgeConvergedIn(2)
    /\ Len(questions) = ProbeCount
    /\ CallIn("qa", 1).out[1][2] = <<"y">>
    /\ CallIn("qa", 2).out[1][2] = <<"n">>

(***************************************************************************)
(* C20: when the file given on the command line does not exist or its load *)
(* raises, the program makes no agent call: it never gets past the entry,  *)
(* and when it has exited it has printed a diagnostic and the exit code is *)
(* not zero.                                                               *)
(***************************************************************************)
C20_InputErrorExits ==
    (~file.exists \/ ~file.loads) =>
        /\ calls = <<>>
        /\ pc \in {"main", "exited"}
        /\ pc = "exited" =>
              /\ exit_code # NotExited
              /\ exit_code # 0
              /\ diagnostic # ""

C20_Witness ==
    /\ pc = "exited"
    /\ file.exists
    /\ ~file.loads
    /\ exit_code = 1
    /\ diagnostic = "Error loading file"

(***************************************************************************)
(* Reading a text character by character: its lines, and a line without    *)
(* the characters of a set at its two ends.                                *)
(***************************************************************************)
\* the lines of a text, the line breaks left out
RECURSIVE LinesOf(_)
LinesOf(text) ==
    IF text = <<>> THEN << <<>> >>
    ELSE LET rest == LinesOf(Tail(text))
         IN IF Head(text) = "\n"
            THEN << <<>> >> \o rest
            ELSE << <<Head(text)>> \o rest[1] >> \o Tail(rest)

RECURSIVE DropLeading(_, _)
DropLeading(line, chars) ==
    IF line # <<>> /\ Head(line) \in chars
    THEN DropLeading(Tail(line), chars)
    ELSE line

RECURSIVE DropTrailing(_, _)
DropTrailing(line, chars) ==
    IF line # <<>> /\ line[Len(line)] \in chars
    THEN DropTrailing(SubSeq(line, 1, Len(line) - 1), chars)
    ELSE line

Trimmed(line, chars) == DropTrailing(DropLeading(line, chars), chars)

IsBlank(line) == \A i \in 1..Len(line) : line[i] \in Whitespace

\* the lines of a text that are not blank, in their order
NonBlankLines(text) == SelectSeq(LinesOf(text), LAMBDA line : ~IsBlank(line))

\* the two letters OK in any case
OKSpellings ==
    { <<"O", "K">>, <<"O", "k">>, <<"o", "K">>, <<"o", "k">> }

(***************************************************************************)
(* C21: JudgeOutputParser.parse returns (False, no topic) exactly for the  *)
(* replies that are the letters OK, in any case, between white space; for  *)
(* every other reply it returns True and the reply's non-blank lines in    *)
(* their order, each without the hyphens and spaces at its two ends.       *)
(***************************************************************************)
C21_JudgeParserExact ==
    agent_run.agent = "JudgeOutputParser" =>
        LET text == agent_run.text
            lines == NonBlankLines(text)
        IN IF Trimmed(text, Whitespace) \in OKSpellings
           THEN agent_run.out =
                    [needs_iteration |-> FALSE, missing_topics |-> <<>>]
           ELSE agent_run.out =
                    [needs_iteration |-> TRUE,
                     missing_topics |->
                         [i \in 1..Len(lines) |->
                             Trimmed(lines[i], {"-", " "})]]

C21_Witness ==
    /\ agent_run.agent = "JudgeOutputParser"
    /\ agent_run.text = <<"-", "o", "\n", "K">>
    /\ agent_run.out.needs_iteration
    /\ agent_run.out.missing_topics = << <<"o">>, <<"K">> >>

(***************************************************************************)
(* C22: QuestionListParser.parse returns the non-blank lines of the reply  *)
(* in their order, each without the white space at its two ends; no        *)
(* question returned is empty or white space only.                         *)
(***************************************************************************)
C22_QuestionParserExact ==
    agent_run.agent = "QuestionListParser" =>
        LET lines == NonBlankLines(agent_run.text)
        IN /\ agent_run.out =
                  [i \in 1..Len(lines) |-> Trimmed(lines[i], Whitespace)]
           /\ \A i \in 1..Len(agent_run.out) :
                 /\ agent_run.out[i] # <<>>
                 /\ ~IsBlank(agent_run.out[i])

C22_Witness ==
    /\ agent_run.agent = "QuestionListParser"
    /\ agent_run.text = <<" ", "\n", "o", " ">>
    /\ agent_run.out = << <<"o">> >>

(***************************************************************************)
(* C23: QAAgentRunner.run succeeds for every QuestionsOutputType value: it *)
(* sends the regular questions first and returns the backend's             *)
(* evaluations.                                                            *)
(***************************************************************************)
C23_QAAgentRunnerSucceeds ==
    agent_run.agent = "QAAgentRunner" =>
        LET regular == agent_run.questions_output.questions
        IN /\ agent_run.outcome.kind = "returned"
           /\ SubSeq(agent_run.outcome.questions_list, 1, Len(regular))
                  = regular
           /\ agent_run.outcome.out = agent_run.reply

(***************************************************************************)
(* C24: every call the controller makes on the agent classes binds: the    *)
(* four constructors and the four run methods exist and take the arguments *)
(* the controller passes.                                                  *)
(***************************************************************************)
C24_InterfacesFit ==
    agent_run.agent = "call site" => agent_run.outcome = "bound"

(***************************************************************************)
(* C25: when a run with max_iterations >= 0 has returned, total_iterations *)
(* is the number of iteration records and, if there is a record,           *)
(* final_summary is the summary of the last one.                           *)
(***************************************************************************)
C25_TotalsMatchRecords ==
    (pc = "returned" /\ max_iterations >= 0) =>
        /\ workflow_result.total_iterations = Len(Records)
        /\ Records # <<>> =>
              workflow_result.final_summary = Records[Len(Records)].summary

C25_Witness ==
    /\ pc = "returned"
    /\ max_iterations = 2
    /\ workflow_result.status = "max_iterations_reached"
    /\ workflow_result.total_iterations = 2
    /\ Records[1].summary = "s2"
    /\ Records[2].summary = "s1"

(***************************************************************************)
(* C26: in the result of a run that has returned, every record but the     *)
(* last has needs_iteration true, the last has needs_iteration false if    *)
(* and only if the status is 'completed', and the i-th record has          *)
(* iteration_number i.                                                     *)
(***************************************************************************)
C26_RecordFlags ==
    pc = "returned" =>
        /\ \A i \in 1..Len(Records) :
              /\ Records[i].iteration_number = i
              /\ i < Len(Records) => Records[i].needs_iteration
        /\ Records # <<>> =>
              (~Records[Len(Records)].needs_iteration
                   <=> workflow_result.status = "completed")

C26_Witness ==
    /\ pc = "returned"
    /\ Len(Records) = 3
    /\ Records[2].needs_iteration
    /\ ~Records[3].needs_iteration
    /\ workflow_result.status = "completed"

(***************************************************************************)
(* C27: a step of a run that is still iterating afterwards leaves the      *)
(* result's query and max_iterations as they are and final_summary,        *)
(* total_iterations and status at '', 0 and ''; the step of a              *)
(* non-converged Judge call appends one record and replaces the focus      *)
(* topics, and the Summarizer's and the Answer Extractor's steps change    *)
(* neither the result nor the focus topics.                                *)
(***************************************************************************)
StillIterating ==
    /\ pc \in Stages
    /\ pc' \in Stages

C27_IterationFrame ==
    [][StillIterating =>
          /\ workflow_result'.query = workflow_result.query
          /\ workflow_result'.max_iterations = workflow_result.max_iterations
          /\ Finals(workflow_result) = <<"", 0, "">>
          /\ Finals(workflow_result') = <<"", 0, "">>
          /\ questions' = questions
          /\ max_iterations' = max_iterations
          /\ IF pc = "judge"
             THEN /\ Len(workflow_result'.iterations) = Len(Records) + 1
                  /\ sections_to_highlight' =
                         workflow_result'.iterations[Len(Records) + 1]
                             .missing_topics
             ELSE /\ workflow_result' = workflow_result
                  /\ sections_to_highlight' = sections_to_highlight]_vars

C27_Witness ==
    /\ pc = "summarize"
    /\ iteration = 2
    /\ Len(Records) = 2
    /\ Records[1].missing_topics # Records[2].missing_topics
    /\ sections_to_highlight = Records[2].missing_topics
    /\ Finals(workflow_result) = <<"", 0, "">>

(***************************************************************************)
(* C28: whenever the Judge returns that another iteration is needed, its   *)
(* list of missing topics is not empty and holds no empty topic, so no     *)
(* Summarizer call after the first is passed an empty list or an empty     *)
(* topic.                                                                  *)
(***************************************************************************)
C28_TopicsNonBlank ==
    /\ \A k \in 1..Len(CallsOf("judge")) :
          LET out == CallIn("judge", k).out
          IN out.needs_iteration =>
                 /\ out.missing_topics # <<>>
                 /\ \A i \in 1..Len(out.missing_topics) :
                       out.missing_topics[i] # <<>>
    /\ \A k \in 2..Len(CallsOf("summarize")) :
          LET sections == CallIn("summarize", k).args.sections
          IN /\ sections # <<>>
             /\ \A i \in 1..Len(sections) : sections[i] # <<>>

(***************************************************************************)
(* C29: a run with max_iterations = 0 calls the Question Proposer and no   *)
(* other stage, and returns a result with no iteration record, an empty    *)
(* final_summary, total_iterations 0 and status 'max_iterations_reached'.  *)
(***************************************************************************)
C29_ZeroBudget ==
    max_iterations = 0 =>
        /\ \A stage \in Stages : CallsOf(stage) = <<>>
        /\ pc \in {"propose", "returned", "raised"}
        /\ pc = "returned" =>
              /\ Len(calls) = 1
              /\ calls[1].stage = "propose"
              /\ workflow_result =
                     [query |-> Query, max_iterations |-> 0,
                      iterations |-> <<>>, final_summary |-> "",
                      total_iterations |-> 0,
                      status |-> "max_iterations_reached"]
              /\ returned.kind = "tuple" =>
                    returned.summary = "" /\ returned.count = 0
              /\ returned.kind = "dict" => returned.result = workflow_result

C29_Witness ==
    /\ max_iterations = 0
    /\ pc = "returned"
    /\ output_format = "json"
    /\ returned.kind = "dict"
    /\ calls[1].out # <<>>

(***************************************************************************)
(* C30: the calls made and the result are a function of the backend's      *)
(* responses and of the budget, not of the output mode: a run that has     *)
(* returned has made the calls, and built the result, that its responses   *)
(* determine; in 'print' mode it returns the pair (final_summary,          *)
(* total_iterations) of that result and in 'json' mode the result itself.  *)
(***************************************************************************)
\* the records the responses determine
ExpectedRecords ==
    [i \in 1..Len(CallsOf("judge")) |->
        [iteration_number |-> i,
         summary |-> CallIn("summarize", i).out,
         qa_pairs |-> CallIn("qa", i).out,
         needs_iteration |-> CallIn("judge", i).out.needs_iteration,
         missing_topics |-> CallIn("judge", i).out.missing_topics]]

\* the result the responses determine
ExpectedResult ==
    LET flow == ExpectedFlow(JudgeOuts, max_iterations)
        summaries == CallsOf("summarize")
    IN [query |-> Query,
        max_iterations |-> max_iterations,
        iterations |-> ExpectedRecords,
        final_summary |-> IF summaries = <<>> THEN ""
                          ELSE summaries[Len(summaries)].out,
        total_iterations |-> IF flow.status = "completed"
                             THEN flow.iterations
                             ELSE max_iterations,
        status |-> flow.status]

C30_OutputModeNeutral ==
    pc = "returned" =>
        /\ Len(calls) =
               1 + 3 * ExpectedFlow(JudgeOuts, max_iterations).iterations
        /\ \A j \in 1..Len(calls) : calls[j].stage = StageAt(j)
        /\ workflow_result = ExpectedResult
        /\ output_format = "print" =>
              returned = [kind |-> "tuple",
                          summary |-> ExpectedResult.final_summary,
                          count |-> ExpectedResult.total_iterations]
        /\ output_format = "json" =>
              returned = [kind |-> "dict", result |-> ExpectedResult]

C30_Witness ==
    /\ pc = "returned"
    /\ output_format = "print"
    /\ returned.kind = "tuple"
    /\ returned.count = 2
    /\ returned.summary = "s2"
    /\ workflow_result.status = "completed"
    /\ Records[1].summary = "s1"

(***************************************************************************)
(* C31: the controller of src/main.py, given the budget and the responses  *)
(* of a run of src/src/main.py in 'print' mode, makes the same calls in    *)
(* the same order with the same arguments (the focus topics among them)    *)
(* and ends as that run ended: it returns the same pair (summary,          *)
(* iteration count), or the same exception leaves it at the same call.     *)
(***************************************************************************)
\* a call as the agents see it: the stage and what is passed
Issued(c) == <<c.stage, c.iteration, c.kwargs, c.args>>

C31_VersionsAgree ==
    v1 # NoV1Run =>
        /\ Len(v1.calls) = Len(calls)
        /\ \A j \in 1..Len(calls) : Issued(v1.calls[j]) = Issued(calls[j])
        /\ v1.pc = pc
        /\ pc = "returned" =>
              /\ returned.kind = "tuple"
              /\ v1.returned = returned
        /\ pc = "raised" =>
              /\ v1.raised = raised
              /\ v1.error = error

C31_Witness ==
    /\ v1 # NoV1Run
    /\ v1.pc = "returned"
    /\ v1.returned.count = 3
    /\ v1.returned.summary = "s1"
    /\ Len(v1.calls) = 10
    /\ v1.calls[5].args.sections # <<>>
    /\ v1.calls[8].args.sections # v1.calls[5].args.sections
    /\ workflow_result.status = "completed"

====
